---- MODULE Spec2Model ----
(***************************************************************************)
(* UDP transport of the RADIUS proxy (udp.c): the framed datagram receiver *)
(* radudpget with its per-peer client table and idle expiry, the listener  *)
(* loop udpserverrd, the reply writer udpserverwr with the shared reply    *)
(* queue, and the outbound socket pool built by addserverextraudp.         *)
(*                                                                         *)
(* Granularity.  A thread's step runs from one point where it can block or *)
(* be overtaken under no lock to the next: recvfrom, pthread_mutex_lock of *)
(* the peer-config lock, pthread_mutex_lock of the reply-queue mutex,      *)
(* pthread_cond_wait.  A critical section of the reply-queue mutex is one  *)
(* step (the mutex serialises them), so that mutex needs no variable; the  *)
(* peer-config lock is held across steps and is the variable plock.        *)
(***************************************************************************)
EXTENDS Integers, Sequences, FiniteSets, TLC

\* ---------------------------------------------------------------- bounds
MaxRq == 2          \* Requests newrequest can hand out in one run
MaxClients == 2     \* client records addclient can hand out in one run
MaxTime == 121      \* the clock stops advancing here
MaxCands == 2       \* bind addresses one source resolves to, at most
MaxBacklog == 2     \* datagrams waiting on one socket, at most
MaxTlvs == 3        \* TLVs allocated in one run
MaxTableClients == 3 \* client records of one run of the client table alone

\* ------------------------------------------------------ program constants
ExpirySecs == 60    \* c->expiry = now.tv_sec + 60
RadMaxLen == 4096   \* if (len > 4096)
RadHeaderLen == 20  \* shortest RADIUS packet (get_checked_rad_length)
PeekLen == 4        \* recvfrom(s, init_buf, 4, MSG_PEEK | MSG_TRUNC, ...)
None == 0           \* NULL: no client, no request, no lock holder
NoSock == -1        \* a server's sock before addserverextraudp assigns it

\* ------------------------------------------------------------- topology
Socks == {1, 2}                       \* listener sockets, one udpserverrd each
Confs == {"p1"}                       \* peer configurations with a client list
NoConf == "none"                      \* find_clconf found nothing
NoAddr == [fam |-> "unspec", ip |-> 0, port |-> 0]
AddrA == [fam |-> "inet", ip |-> 5, port |-> 4000]
AddrB == [fam |-> "inet", ip |-> 5, port |-> 4001]
AddrU == [fam |-> "inet", ip |-> 9, port |-> 1812]
Addrs == {AddrA, AddrB, AddrU}
AddrC == [fam |-> "inet", ip |-> 5, port |-> 4002]
TableAddrs == {AddrA, AddrB, AddrC}   \* three clients of one configured peer
Deltas == {60, 61}                    \* seconds the clock advances at once
Servers == {1, 2, 3}                  \* upstream server configurations
BindA == [fam |-> "inet", ip |-> 1]   \* source bind addresses
BindB == [fam |-> "inet", ip |-> 2]
BindC == [fam |-> "inet6", ip |-> 1]
BindAddrs == {BindA, BindB, BindC}
Families == {"inet", "inet6"}
\* conf->hostports of server x: its resolved destinations, in order
HostPorts(x) == <<[ip |-> 10 + x, port |-> 1812], [ip |-> 20 + x, port |-> 1812]>>
RadLens == {-1, 0, 1, 20}             \* radlen arguments of clientradputudp
TlvTypes == {1, 2}                    \* uint8_t t
TlvLens == {0, 2}                     \* uint8_t l
\* a value pointer: NULL, or a buffer with its bytes
NoBuf == [has |-> FALSE, bytes |-> <<>>]
Buf(b) == [has |-> TRUE, bytes |-> b]
\* the v arguments of maketlv: NULL, or a buffer of at least l bytes
SrcBufs == {NoBuf, Buf(<<1, 1>>)}
\* struct tlv *: NULL
NullTlv == [null |-> TRUE, t |-> 0, l |-> 0, v |-> NoBuf]

\* a datagram on the wire: source address, the length its header declares
\* (bytes 2..3), and the number of bytes that actually arrived
HdrLens == {0, 19, 20, 4096, 4097}
WireDatagrams ==
    {d \in [from : Addrs, hdr : HdrLens, size : 0..(RadMaxLen + 2)] :
        d.size \in {3, d.hdr - 1, d.hdr, d.hdr + 1}}
\* the datagrams of the concurrency specification: well-formed ones, and one
\* from an unconfigured peer
PlainDatagrams ==
    {d \in WireDatagrams : d.hdr = RadHeaderLen /\ d.size = d.hdr}

\* the datagrams of the ordering specification: told apart by source and
\* length, one of them with a bad length and one from an unconfigured peer
OrderDatagrams ==
    {d \in WireDatagrams :
        /\ d.size = d.hdr
        /\ \/ d.from = AddrA /\ d.hdr \in {19, 20}
           \/ d.from = AddrB /\ d.hdr = 4096
           \/ d.from = AddrU /\ d.hdr = 20}

VARIABLES
    clock,      \* gettimeofday, seconds
    clients,    \* clients[p]: p->clients, a list of client records
    plock,      \* plock[p]: the listener socket whose thread holds p->lock, or None
    nextCl,     \* the next client record addclient allocates
    rq,         \* rq[r]: the Request r (state, from, buflen, bufn, udpsock, nfree)
    nextRq,     \* the next Request newrequest allocates
    replyq,     \* server_replyq->entries, a list of Requests
    sockq,      \* sockq[s]: the datagrams waiting on listener socket s
    pc,         \* pc[s]: where the listener thread of s stands
    cur,        \* cur[s]: udpserverrd's rq
    conf,       \* conf[s]: radudpget's p
    frm,        \* frm[s]: radudpget's from
    len,        \* len[s]: radudpget's len
    cl,         \* cl[s]: radudpget's *client
    ev,         \* ev[s]: the expired client c the walk stopped at
    now,        \* now[s]: radudpget's now.tv_sec
    wpc,        \* where the writer thread stands
    wreply,     \* udpserverwr's reply
    wto,        \* udpserverwr's to
    sent,       \* the sendto calls of the writer: [rq, to, sock]
    out,        \* out[s]: how the listener's last pass of the receive loop ended
    pool,       \* client_sock: the list of (source, socket)
    srv,        \* srv[x]: server x's sock, and the candidates and family it was set up with
    nextFd,     \* the next descriptor bindtoaddr returns
    exited,     \* debugx(1, ...) ended the process
    put,        \* the last clientradputudp call: arguments, sendto calls, result
    attrs,      \* a TLV list: its TLVs, each with the id of its allocation
    nextTlv,    \* the next TLV allocation
    tlvop,      \* the last TLV operation on the list and its type argument
    rpc,        \* where the upstream reader thread (udpclientrd) stands
    rbuf,       \* udpclientrd's buf: "uninit", "none", "own" (radudpget
                \* allocated it, nobody else has it), "wild", "handed"
    rin,        \* the *buf radudpget found when it was last called
    rfreed,     \* what the free at the top of the receive loop last released
    rsockq,     \* the datagrams waiting on the reader's socket
    rret        \* what replyh last got: server and len

vars == <<clock, clients, plock, nextCl, rq, nextRq, replyq, sockq, pc, cur,
          conf, frm, len, cl, ev, now, wpc, wreply, wto, sent, out,
          pool, srv, nextFd, exited, put, attrs, nextTlv, tlvop,
          rpc, rbuf, rin, rfreed, rsockq, rret>>
lvars == <<pc, cur, conf, frm, len, cl, ev, now, out>>
wvars == <<wpc, wreply, wto, sent>>
poolvars == <<pool, srv, nextFd, exited>>
putvars == <<put>>
tlvvars == <<attrs, nextTlv, tlvop>>
rdvars == <<rpc, rbuf, rin, rfreed, rsockq, rret>>
pvars == <<poolvars, putvars, tlvvars, rdvars>>
uvars == <<clock, clients, plock, nextCl, rq, nextRq, replyq, sockq, lvars, wvars>>

\* ------------------------------------------------------------- helpers
NoRq == [state |-> "free", from |-> None, buflen |-> 0, bufn |-> 0,
         udpsock |-> 0, nfree |-> 0]

\* the ids of the client records on a list
Ids(list) == {list[i].id : i \in DOMAIN list}

\* the client record id is a current member of some peer-config's list
Live(id) == \E p \in Confs : id \in Ids(clients[p])

\* the record of a live client
ClientRec(id) ==
    LET p == CHOOSE q \in Confs : id \in Ids(clients[q])
        i == CHOOSE j \in DOMAIN clients[p] : clients[p][j].id = id
    IN clients[p][i]

\* the list without the record id (list_removedata)
Without(list, id) ==
    SelectSeq(list, LAMBDA c : c.id # id)

\* find_clconf: the peer configuration whose client rule matches the address
find_clconf(a) == IF a.ip = 5 THEN "p1" ELSE NoConf

\* get_checked_rad_length: the declared length, negated when it is too short
get_checked_rad_length(hdr) == IF hdr < RadHeaderLen THEN -hdr ELSE hdr

\* addr_equal: family, address bytes and port
addr_equal(a, b) ==
    CASE a.fam = "inet" -> a.ip = b.ip /\ a.port = b.port
      [] a.fam = "inet6" -> a.ip = b.ip /\ a.port = b.port
      [] OTHER -> FALSE

\* ------------------------------------------------- radudpget, framing
\* the length field radudpget reads from init_buf after the 4-byte peek: the
\* datagram's own when it has a whole header, else whatever init_buf held
PeekedHdrs(d) == IF d.size >= PeekLen THEN {d.hdr} ELSE HdrLens

\* a peek that shows the newest waiting datagram
PeekedLast(q) == q[Len(q)]

\* recvfrom(s, init_buf, 4, MSG_PEEK | MSG_TRUNC, ...): the datagram that has
\* waited longest on the socket
Peeked(q) == Head(q)

\* if (!p)
PeerMissing(p) == p = NoConf

\* the length check without its upper limit
LenRejectedNoCeiling(l) == l <= 0

\* if (len <= 0) ... if (len > 4096)
LenRejected(l) == l <= 0 \/ l > RadMaxLen

\* a given-up datagram that is not read off the socket
DrainNothing(q) == q

\* recv(s, init_buf, 4, 0) of a datagram that is given up: it leaves the socket
Drain(q) == Tail(q)

\* cnt = recv(s, *buf, len, MSG_TRUNC): the datagram leaves the socket, the
\* buffer gets its first len bytes (fewer if it is shorter), cnt is its size
Received(d, l) == [cnt |-> d.size, n |-> IF d.size < l THEN d.size ELSE l]

\* the short-datagram check left out
TruncatedNever(cnt, l) == FALSE

\* if (cnt < len)
Truncated(cnt, l) == cnt < l

\* what one pass of the receive loop does with the datagram d, up to the
\* client section: the outcome, the length and the bytes put in *buf
Frame(d, stale, mem) ==
    LET p == find_clconf(d.from)
        l == get_checked_rad_length(stale)
    IN IF PeerMissing(p) THEN [kind |-> "nopeer", len |-> 0, n |-> 0]
       ELSE IF LenRejected(l) THEN [kind |-> "badlen", len |-> 0, n |-> 0]
       ELSE IF ~mem THEN [kind |-> "nomem", len |-> 0, n |-> 0]
       ELSE IF Truncated(Received(d, l).cnt, l)
            THEN [kind |-> "short", len |-> l, n |-> 0]
       ELSE IF Received(d, l).cnt > l
            THEN [kind |-> "padded", len |-> l, n |-> Received(d, l).n]
       ELSE [kind |-> "ok", len |-> l, n |-> Received(d, l).n]

\* ------------------------------------------- radudpget, client section
\* an expiry that is the time of the datagram itself
RefreshedNoGrace(t) == t

\* c->expiry = now.tv_sec + 60
Refreshed(t) == t + ExpirySecs

\* if (c->expiry >= now.tv_sec) continue;  -- otherwise c is removed
Expired(c, t) == ~(c.expiry >= t)

\* the loop with the expiry test ahead of the match: an expired client is
\* removed even when the datagram is its own
RECURSIVE WalkExpiryFirst(_, _, _, _, _)
WalkExpiryFirst(acc, i, s, a, t) ==
    IF i > Len(acc.list) THEN acc
    ELSE LET c == acc.list[i] IN
         IF s # c.sock THEN WalkExpiryFirst(acc, i + 1, s, a, t)
         ELSE IF Expired(c, t) THEN [acc EXCEPT !.evict = c.id]
         ELSE LET hit == acc.client = None /\ addr_equal(a, c.addr)
                  c2 == IF hit THEN [c EXCEPT !.expiry = Refreshed(t)] ELSE c
                  acc2 == [acc EXCEPT !.list[i] = c2,
                                      !.client = IF hit THEN c.id ELSE @]
              IN WalkExpiryFirst(acc2, i + 1, s, a, t)

\* the for loop over p->clients: every client of socket s is visited in list
\* order; the first one whose address equals the source is refreshed and
\* becomes *client; the loop ends (break) at the first visited client whose
\* expiry has passed.  acc = [list, client, evict]
RECURSIVE Walk(_, _, _, _, _)
Walk(acc, i, s, a, t) ==
    IF i > Len(acc.list) THEN acc
    ELSE LET c == acc.list[i] IN
         IF s # c.sock THEN Walk(acc, i + 1, s, a, t)
         ELSE LET hit == acc.client = None /\ addr_equal(a, c.addr)
                  c2 == IF hit THEN [c EXCEPT !.expiry = Refreshed(t)] ELSE c
                  acc2 == [acc EXCEPT !.list[i] = c2,
                                      !.client = IF hit THEN c.id ELSE @]
              IN IF Expired(c2, t)
                 THEN [acc2 EXCEPT !.evict = c.id]
                 ELSE Walk(acc2, i + 1, s, a, t)

\* removeudpclientfromreplyq: every Request on the reply queue whose from is
\* c gets from = NULL
removeudpclientfromreplyq(rqs, q, c) ==
    [r \in DOMAIN rqs |->
        IF (\E k \in DOMAIN q : q[k] = r) /\ rqs[r].from = c
        THEN [rqs[r] EXCEPT !.from = None]
        ELSE rqs[r]]

\* removelockedclient: the record leaves its peer-config's list and is freed
removelockedclient(list, c) == Without(list, c)

\* addclient + lines 238-241: a new record at the end of p->clients
addclient(list, id, s, a, t) ==
    Append(list, [id |-> id, sock |-> s, addr |-> a, expiry |-> Refreshed(t)])

\* the allocations of the client section succeed or fail; the run's supply of
\* client records is finite
AllocOutcomes == IF nextCl <= MaxClients THEN BOOLEAN ELSE {FALSE}

\* radudpget returns, or starts its loop over: its locals are gone
Forget(s) ==
    /\ conf' = [conf EXCEPT ![s] = NoConf]
    /\ frm' = [frm EXCEPT ![s] = NoAddr]
    /\ len' = [len EXCEPT ![s] = 0]
    /\ cl' = [cl EXCEPT ![s] = None]
    /\ ev' = [ev EXCEPT ![s] = None]
    /\ now' = [now EXCEPT ![s] = 0]

\* udpserverrd, lines 296-299: the Request gets the length, the client and
\* the socket, and goes to radsrv
Deliver(s, client) ==
    /\ rq' = [rq EXCEPT ![cur[s]] =
                [@ EXCEPT !.state = "radsrv", !.from = client,
                          !.buflen = len[s], !.udpsock = s]]
    /\ pc' = [pc EXCEPT ![s] = "newrq"]

\* a return path that keeps p->lock
UnlockedNever(pl, p) == pl

\* pthread_mutex_unlock(p->lock), lines 229, 235 and 244
Unlocked(pl, p) == [pl EXCEPT ![p] = None]

\* lines 226-249: with *client set the lock is released and radudpget
\* returns; without, a client is added first, and when that fails the lock is
\* released and the loop starts over (the loop top frees *buf)
Publish(s, p, list, client, how) ==
    /\ plock' = Unlocked(plock, p)
    /\ Forget(s)
    /\ IF client # None
       THEN /\ clients' = [clients EXCEPT ![p] = list]
            /\ nextCl' = nextCl
            /\ Deliver(s, client)
            /\ out' = [out EXCEPT ![s] = how]
       ELSE \E ok \in AllocOutcomes :
            IF ok
            THEN /\ clients' = [clients EXCEPT
                                  ![p] = addclient(list, nextCl, s, frm[s], clock)]
                 /\ nextCl' = nextCl + 1
                 /\ Deliver(s, nextCl)
                 /\ out' = [out EXCEPT ![s] = "created"]
            ELSE /\ clients' = [clients EXCEPT ![p] = list]
                 /\ nextCl' = nextCl
                 /\ rq' = [rq EXCEPT ![cur[s]] = [@ EXCEPT !.bufn = 0]]
                 /\ pc' = [pc EXCEPT ![s] = "recv"]
                 /\ out' = [out EXCEPT ![s] = "failed"]

\* ------------------------------------------------------------- actions
\* a datagram arrives on listener socket s.  Only arrivals that wake the
\* listener blocked in recvfrom are distinguished: a datagram that arrives
\* while the thread is busy waits in the kernel and is the same as a later one
Arrive(s, d) ==
    /\ pc[s] = "recv"
    /\ sockq[s] = <<>>
    /\ sockq' = [sockq EXCEPT ![s] = <<d>>]
    /\ UNCHANGED <<clock, clients, plock, nextCl, rq, nextRq, replyq>>
    /\ UNCHANGED <<lvars, wvars>>
    /\ UNCHANGED pvars

\* a datagram arrives on socket s behind others, or while the listener is
\* busy with an earlier one
ArriveBehind(s, d) ==
    /\ sockq[s] # <<>> \/ pc[s] # "recv"
    /\ Len(sockq[s]) < MaxBacklog
    /\ sockq' = [sockq EXCEPT ![s] = Append(@, d)]
    /\ UNCHANGED <<clock, clients, plock, nextCl, rq, nextRq, replyq>>
    /\ UNCHANGED <<lvars, wvars>>
    /\ UNCHANGED pvars

\* time passes
Tick(dt) ==
    /\ clock + dt <= MaxTime
    /\ clock' = clock + dt
    /\ UNCHANGED <<clients, plock, nextCl, rq, nextRq, replyq, sockq>>
    /\ UNCHANGED <<lvars, wvars>>
    /\ UNCHANGED pvars

\* udpserverrd: rq = newrequest()
NewRequest(s) ==
    /\ pc[s] = "newrq"
    /\ nextRq <= MaxRq
    /\ rq' = [rq EXCEPT ![nextRq] = [NoRq EXCEPT !.state = "new"]]
    /\ cur' = [cur EXCEPT ![s] = nextRq]
    /\ nextRq' = nextRq + 1
    /\ pc' = [pc EXCEPT ![s] = "recv"]
    /\ UNCHANGED <<clock, clients, plock, nextCl, replyq, sockq>>
    /\ UNCHANGED <<conf, frm, len, cl, ev, now, out, wvars>>
    /\ UNCHANGED pvars

\* radudpget, lines 150-202: peek, look the peer up, check the length,
\* allocate, receive
RadudpgetRecv(s) ==
    /\ pc[s] = "recv"
    /\ sockq[s] # <<>>
    /\ LET d == Peeked(sockq[s]) IN
       \E stale \in PeekedHdrs(d), mem \in BOOLEAN :
          LET f == Frame(d, stale, mem) IN
          IF f.kind \in {"nopeer", "badlen", "nomem"}
          THEN /\ sockq' = [sockq EXCEPT ![s] = Drain(@)]
               /\ out' = [out EXCEPT ![s] = f.kind]
               /\ UNCHANGED <<rq, pc, cur, conf, frm, len, cl, ev, now>>
          ELSE /\ sockq' = [sockq EXCEPT ![s] = Tail(@)]
               /\ out' = [out EXCEPT ![s] = f.kind]
               /\ IF f.kind = "short"
                  THEN UNCHANGED <<rq, pc, cur, conf, frm, len, cl, ev, now>>
                  ELSE /\ rq' = [rq EXCEPT ![cur[s]] = [@ EXCEPT !.bufn = f.n]]
                       /\ conf' = [conf EXCEPT ![s] = find_clconf(d.from)]
                       /\ frm' = [frm EXCEPT ![s] = d.from]
                       /\ len' = [len EXCEPT ![s] = f.len]
                       /\ cl' = [cl EXCEPT ![s] = None]
                       /\ pc' = [pc EXCEPT ![s] = "lockp"]
                       /\ UNCHANGED <<cur, ev, now>>
    /\ UNCHANGED <<clock, clients, plock, nextCl, nextRq, replyq, wvars>>
    /\ UNCHANGED pvars

\* radudpget, lines 204-219 (and 226-249 when nothing is removed): take
\* p->lock and walk the clients
RadudpgetWalk(s) ==
    /\ pc[s] = "lockp"
    /\ plock[conf[s]] = None
    /\ LET p == conf[s]
           w == Walk([list |-> clients[p], client |-> None, evict |-> None],
                     1, s, frm[s], clock)
           how == IF w.client = None THEN "ok"
                  ELSE IF Expired(ClientRec(w.client), clock) THEN "revived"
                  ELSE "matched"
       IN IF w.evict # None
          THEN /\ clients' = [clients EXCEPT ![p] = w.list]
               /\ out' = [out EXCEPT ![s] = how]
               /\ plock' = [plock EXCEPT ![p] = s]
               /\ cl' = [cl EXCEPT ![s] = w.client]
               /\ ev' = [ev EXCEPT ![s] = w.evict]
               /\ now' = [now EXCEPT ![s] = clock]
               /\ pc' = [pc EXCEPT ![s] = "scrub"]
               /\ UNCHANGED <<nextCl, rq, conf, frm, len>>
          ELSE Publish(s, p, w.list, w.client, how)
    /\ UNCHANGED <<clock, nextRq, replyq, sockq, cur, wvars>>
    /\ UNCHANGED pvars

\* radudpget, line 221: removeudpclientfromreplyq(c), under the queue's mutex
RadudpgetScrub(s) ==
    /\ pc[s] = "scrub"
    /\ rq' = removeudpclientfromreplyq(rq, replyq, ev[s])
    /\ pc' = [pc EXCEPT ![s] = "remove"]
    /\ UNCHANGED <<clock, clients, plock, nextCl, nextRq, replyq, sockq>>
    /\ UNCHANGED <<cur, conf, frm, len, cl, ev, now, out, wvars>>
    /\ UNCHANGED pvars

\* radudpget, lines 222-249: removelockedclient(c), break, and the rest
RadudpgetRemove(s) ==
    /\ pc[s] = "remove"
    /\ Publish(s, conf[s], removelockedclient(clients[conf[s]], ev[s]), cl[s],
               out[s])
    /\ UNCHANGED <<clock, nextRq, replyq, sockq, cur, wvars>>
    /\ UNCHANGED pvars

\* a reply for Request r is queued on its client's reply queue (sendreply),
\* under the queue's mutex, and the queue's condition is signalled
Enqueue(r) ==
    /\ rq[r].state = "radsrv"
    /\ Live(rq[r].from)
    /\ rq' = [rq EXCEPT ![r] = [@ EXCEPT !.state = "queued"]]
    /\ replyq' = Append(replyq, r)
    /\ wpc' = IF wpc = "waiting" THEN "lock" ELSE wpc
    /\ UNCHANGED <<clock, clients, plock, nextCl, nextRq, sockq>>
    /\ UNCHANGED <<lvars, wreply, wto, sent>>
    /\ UNCHANGED pvars

\* memcpy(&to, reply->from->addr, ...): the address of the client; reading a
\* record that was freed yields any address
Snapshot(c) ==
    IF c = None THEN {NoAddr}
    ELSE IF Live(c) THEN {ClientRec(c).addr}
    ELSE Addrs

\* a shift that takes the newest entry
list_shift_last(q) == [data |-> q[Len(q)], rest |-> SubSeq(q, 1, Len(q) - 1)]

\* list_shift(replyq->entries): the first entry leaves the list
list_shift(q) == [data |-> Head(q), rest |-> Tail(q)]

\* a writer that waits whatever the queue holds
MustWaitAlways(q) == TRUE

\* while (!(reply = list_shift(...))) pthread_cond_wait(...): nothing to shift
MustWait(q) == q = <<>>

\* udpserverwr, lines 311-316: the queue is empty, wait for the signal
WriterWait ==
    /\ wpc = "lock"
    /\ MustWait(replyq)
    /\ wpc' = "waiting"
    /\ UNCHANGED <<clock, clients, plock, nextCl, rq, nextRq, replyq, sockq>>
    /\ UNCHANGED <<lvars, wreply, wto, sent>>
    /\ UNCHANGED pvars

\* udpserverwr, lines 311-320: shift the next reply and copy its client's
\* address, under the queue's mutex
WriterShift ==
    /\ wpc = "lock"
    /\ replyq # <<>>
    /\ LET r == list_shift(replyq).data IN
       /\ wreply' = r
       /\ replyq' = list_shift(replyq).rest
       /\ rq' = [rq EXCEPT ![r] = [@ EXCEPT !.state = "writer"]]
       /\ wto' \in Snapshot(rq[r].from)
    /\ wpc' = "send"
    /\ UNCHANGED <<clock, clients, plock, nextCl, nextRq, sockq>>
    /\ UNCHANGED <<lvars, sent>>
    /\ UNCHANGED pvars

\* a writer that sends without looking at from
WriterSendsAlways(r) == TRUE

\* if (reply->from) sendto(...)
WriterSends(r) == rq[r].from # None

\* udpserverwr, lines 321-326: send if from is set, then freerq
WriterSend ==
    /\ wpc = "send"
    /\ sent' = IF WriterSends(wreply)
               THEN sent \cup {[rq |-> wreply, to |-> wto,
                                sock |-> rq[wreply].udpsock]}
               ELSE sent
    /\ rq' = [rq EXCEPT ![wreply] =
                [@ EXCEPT !.state = "freed", !.nfree = @ + 1]]
    /\ wpc' = "lock"
    /\ wreply' = None
    /\ wto' = NoAddr
    /\ UNCHANGED <<clock, clients, plock, nextCl, nextRq, replyq, sockq>>
    /\ UNCHANGED lvars
    /\ UNCHANGED pvars

\* radudpget, lines 204-244, for a datagram from a on socket s, with no other
\* thread at work: the lock is held from 206 to 244 and p->clients changes
\* under it only, so for the client table the section is one step.  The pass
\* leaves its source, its time and its *client in frm, now and cl
TablePass(s, a) ==
    LET p == find_clconf(a)
        w == Walk([list |-> clients[p], client |-> None, evict |-> None],
                  1, s, a, clock)
        kept == IF w.evict # None THEN removelockedclient(w.list, w.evict)
                ELSE w.list
    IN /\ ~PeerMissing(p)
       /\ plock[p] = None
       /\ frm' = [frm EXCEPT ![s] = a]
       /\ now' = [now EXCEPT ![s] = clock]
       /\ IF w.client # None
          THEN /\ clients' = [clients EXCEPT ![p] = kept]
               /\ nextCl' = nextCl
               /\ cl' = [cl EXCEPT ![s] = w.client]
               /\ out' = [out EXCEPT ![s] = "matched"]
          ELSE \E ok \in IF nextCl <= MaxTableClients THEN BOOLEAN ELSE {FALSE} :
               IF ok
               THEN /\ clients' = [clients EXCEPT
                                     ![p] = addclient(kept, nextCl, s, a, clock)]
                    /\ nextCl' = nextCl + 1
                    /\ cl' = [cl EXCEPT ![s] = nextCl]
                    /\ out' = [out EXCEPT ![s] = "created"]
               ELSE /\ clients' = [clients EXCEPT ![p] = kept]
                    /\ nextCl' = nextCl
                    /\ cl' = [cl EXCEPT ![s] = None]
                    /\ out' = [out EXCEPT ![s] = "failed"]
       /\ UNCHANGED <<clock, plock, rq, nextRq, replyq, sockq>>
       /\ UNCHANGED <<pc, cur, conf, len, ev, wvars>>
       /\ UNCHANGED pvars

\* ------------------------------------------- udpclientrd, the reader
\* find_srvconf: the server configuration the address belongs to
find_srvconf(a) == IF a.ip = 9 THEN "s1" ELSE NoConf

\* the value of a pointer variable when it is read: an automatic variable
\* that was never assigned holds anything, NULL or not
ReadPtr(b) == IF b = "uninit" THEN {"none", "wild"} ELSE {b}

\* a datagram arrives on the reader's socket while it waits in recvfrom
ReaderArrive(d) ==
    /\ rpc = "recv"
    /\ rsockq = <<>>
    /\ rsockq' = <<d>>
    /\ UNCHANGED <<rpc, rbuf, rin, rfreed, rret>>
    /\ UNCHANGED <<uvars, poolvars, putvars, tlvvars>>

\* udpclientrd, lines 279-280: server = NULL; radudpget(*s, NULL, &server, &buf)
ReaderCall ==
    /\ rpc = "call"
    /\ \E b \in ReadPtr(rbuf) :
          /\ rin' = b
          /\ rbuf' = b
    /\ rpc' = "top"
    /\ UNCHANGED <<rfreed, rsockq, rret>>
    /\ UNCHANGED <<uvars, poolvars, putvars, tlvvars>>

\* radudpget, lines 151-154: if (*buf) { free(*buf); *buf = NULL; }.  free of
\* a pointer malloc never returned may end the process or go on
ReaderTop ==
    /\ rpc = "top"
    /\ IF rbuf = "none"
       THEN /\ rpc' = "recv"
            /\ UNCHANGED <<rbuf, rfreed>>
       ELSE /\ rfreed' = rbuf
            /\ rbuf' = "none"
            /\ rpc' \in IF rbuf = "own" THEN {"recv"} ELSE {"recv", "aborted"}
    /\ UNCHANGED <<rin, rsockq, rret>>
    /\ UNCHANGED <<uvars, poolvars, putvars, tlvvars>>

\* radudpget, lines 156-202 and 245-249, with server set: one pass over the
\* datagram; a pass that gives it up starts the loop over, a pass that takes
\* it returns len with *server and *buf set
ReaderRecv ==
    /\ rpc = "recv"
    /\ rsockq # <<>>
    /\ LET d == Peeked(rsockq) IN
       \E stale \in PeekedHdrs(d), mem \in BOOLEAN :
          LET p == find_srvconf(d.from)
              l == get_checked_rad_length(stale)
          IN IF PeerMissing(p) \/ LenRejected(l) \/ ~mem
             THEN /\ rsockq' = Drain(rsockq)
                  /\ rpc' = "top"
                  /\ UNCHANGED <<rbuf, rret>>
             ELSE /\ rsockq' = Tail(rsockq)
                  /\ rbuf' = "own"
                  /\ IF Truncated(Received(d, l).cnt, l)
                     THEN rpc' = "top" /\ UNCHANGED rret
                     ELSE rpc' = "reply" /\ rret' = [server |-> p, len |-> l]
    /\ UNCHANGED <<rin, rfreed>>
    /\ UNCHANGED <<uvars, poolvars, putvars, tlvvars>>

\* udpclientrd, lines 281-282: replyh(server, buf, len) takes the buffer;
\* buf = NULL
ReaderReply ==
    /\ rpc = "reply"
    /\ rbuf' = "none"
    /\ rpc' = "call"
    /\ UNCHANGED <<rin, rfreed, rsockq, rret>>
    /\ UNCHANGED <<uvars, poolvars, putvars, tlvvars>>

\* ---------------------------------------------------- addserverextraudp
\* tmpaddrinfo->ai_family == AF_UNSPEC || ... == the destination's family
FamilyOk(c, fam) == c.fam = "unspec" \/ c.fam = fam

\* memcmp(tmpaddrinfo->ai_addr, entry->source, tmpaddrinfo->ai_addrlen) == 0
SameSource(c, src) == c = src

\* the inner for loop: the socket of the first pool entry with the
\* candidate's source, else the sock as it was
Reused(pl, c, sock) ==
    LET hits == {k \in DOMAIN pl : SameSource(c, pl[k].source)}
    IN IF hits = {} THEN sock
       ELSE pl[CHOOSE k \in hits : \A m \in hits : k <= m].socket

\* the for loop over the candidates, from candidate i on.
\* st = [pool, sock, fd]; bound: whether bindtoaddr succeeds
RECURSIVE CandLoop(_, _, _, _, _)
CandLoop(st, cands, i, fam, bound) ==
    IF i > Len(cands) THEN st
    ELSE IF ~FamilyOk(cands[i], fam) THEN CandLoop(st, cands, i + 1, fam, bound)
    ELSE LET sock1 == Reused(st.pool, cands[i], st.sock) IN
         IF sock1 < 0
         THEN LET fd == IF bound THEN st.fd ELSE NoSock IN
              [pool |-> Append(st.pool, [source |-> cands[i], socket |-> fd]),
               sock |-> fd,
               fd |-> IF bound THEN st.fd + 1 ELSE st.fd]
         ELSE CandLoop([st EXCEPT !.sock = sock1], cands, i + 1, fam, bound)

\* the candidate lists a source can resolve to
CandLists ==
    UNION {[1..n -> BindAddrs] : n \in 0..MaxCands}

\* addserverextraudp(conf) for server x, whose source (or the default
\* srcres) resolved to cands and whose first hostport has family fam
AddServerExtraUdp(x, cands, fam, bound) ==
    /\ ~exited
    /\ ~srv[x].done
    /\ LET st == CandLoop([pool |-> pool, sock |-> srv[x].sock, fd |-> nextFd],
                          cands, 1, fam, bound)
       IN /\ pool' = st.pool
          /\ nextFd' = st.fd
          /\ srv' = [srv EXCEPT ![x] = [sock |-> st.sock, cands |-> cands,
                                        fam |-> fam, done |-> TRUE]]
          /\ exited' = (st.sock < 0)
    /\ UNCHANGED <<uvars, putvars, tlvvars, rdvars>>

\* ------------------------------------------------------ clientradputudp
\* the call without its length check
clientradputudpAnyLen(server, sock, radlen, ok) ==
    [ret |-> IF ok THEN 1 ELSE 0,
     sends |-> <<[sock |-> sock, len |-> radlen, to |-> Head(HostPorts(server))]>>]

\* clientradputudp(server, rad, radlen): what it returns and the sendto calls
\* it makes; ok: whether sendto returns >= 0
clientradputudp(server, sock, radlen, ok) ==
    IF radlen <= 0
    THEN [ret |-> 0, sends |-> <<>>]
    ELSE [ret |-> IF ok THEN 1 ELSE 0,
          sends |-> <<[sock |-> sock, len |-> radlen,
                       to |-> Head(HostPorts(server))]>>]

\* sendto on a descriptor that was never assigned fails
SendOutcomes(sock) == IF sock < 0 THEN {FALSE} ELSE BOOLEAN

\* the proxy core sends a request of radlen bytes to server x
ClientRadPutUdp(x, radlen, ok) ==
    /\ ~exited
    /\ ok \in SendOutcomes(srv[x].sock)
    /\ LET res == clientradputudp(x, srv[x].sock, radlen, ok)
       IN put' = [called |-> TRUE, server |-> x, sock |-> srv[x].sock,
                  radlen |-> radlen, ok |-> ok,
                  ret |-> res.ret, sends |-> res.sends]
    /\ UNCHANGED <<uvars, poolvars, tlvvars, rdvars>>

\* ------------------------------------------------------------------ TLV
\* maketlv(t, l, v).  mem: "ok", or which malloc fails ("notlv", "nov")
maketlv(t, l, v, mem) ==
    IF mem = "notlv" THEN NullTlv
    ELSE IF l # 0 /\ v.has
         THEN IF mem = "nov" THEN NullTlv
              ELSE [null |-> FALSE, t |-> t, l |-> l,
                    v |-> Buf(SubSeq(v.bytes, 1, l))]
         ELSE [null |-> FALSE, t |-> t, l |-> l, v |-> NoBuf]

\* copytlv(in)
copytlv(in, mem) ==
    IF in.null THEN NullTlv ELSE maketlv(in.t, in.l, in.v, mem)

\* realloc(v, newlen).  how: "ok"; "null" (failure, or a zero-size request
\* answered with NULL).  A zero-size request answered "ok" gives a pointer to
\* no bytes; bytes gained by growing are whatever they are, written as 1
realloc(v, newlen, how) ==
    IF how = "null" THEN NoBuf
    ELSE Buf([k \in 1..newlen |->
                IF k <= Len(v.bytes) THEN v.bytes[k] ELSE 1])

\* resizetlv(tlv, newlen): the TLV after the call, and whether it returned
\* NULL
resizetlv(tlv, newlen, how) ==
    IF newlen # tlv.l
    THEN LET newv == realloc(tlv.v, newlen, how) IN
         IF newlen # 0 /\ ~newv.has
         THEN [tlv |-> tlv, null |-> TRUE]
         ELSE [tlv |-> [tlv EXCEPT !.v = newv, !.l = newlen], null |-> FALSE]
    ELSE [tlv |-> tlv, null |-> FALSE]

\* list_next(n) / list_first(L) as positions, 0 for NULL
NodeAfter(L, n) == IF n < Len(L) THEN n + 1 ELSE 0

\* the loop that, after a removal, goes on from the node after the next one
RECURSIVE RmLoopSkipping(_, _, _, _)
RmLoopSkipping(L, p, n, t) ==
    IF n = 0 THEN L
    ELSE IF L[n].t = t
         THEN LET L2 == Without(L, L[n].id)
              IN RmLoopSkipping(L2, p, NodeAfter(L2, n), t)
         ELSE RmLoopSkipping(L, n, NodeAfter(L, n), t)

\* rmtlv's while loop: n the node looked at, p the last node kept
RECURSIVE RmLoop(_, _, _, _)
RmLoop(L, p, n, t) ==
    IF n = 0 THEN L
    ELSE IF L[n].t = t
         THEN LET L2 == Without(L, L[n].id)
              IN RmLoop(L2, p, NodeAfter(L2, p), t)
         ELSE RmLoop(L, n, NodeAfter(L, n), t)

\* rmtlv(tlvs, t)
rmtlv(L, t) == RmLoop(L, 0, NodeAfter(L, 0), t)

\* list_push of a TLV that was allocated
Pushed(L, tlv) ==
    IF tlv.null THEN L
    ELSE Append(L, [id |-> nextTlv, t |-> tlv.t, l |-> tlv.l, v |-> tlv.v])

\* a TLV is made and, when the allocation succeeds, put on the list
MakeTlv(t, l, v, mem) ==
    /\ nextTlv <= MaxTlvs
    /\ LET tlv == maketlv(t, l, v, mem) IN
       /\ attrs' = Pushed(attrs, tlv)
       /\ nextTlv' = IF tlv.null THEN nextTlv ELSE nextTlv + 1
    /\ tlvop' = [op |-> "make", t |-> t]
    /\ UNCHANGED <<uvars, poolvars, putvars, rdvars>>

\* the TLV at position i is copied and the copy put on the list
CopyTlv(i, mem) ==
    /\ nextTlv <= MaxTlvs
    /\ i \in DOMAIN attrs
    /\ LET in == [null |-> FALSE, t |-> attrs[i].t, l |-> attrs[i].l,
                  v |-> attrs[i].v]
           tlv == copytlv(in, mem) IN
       /\ attrs' = Pushed(attrs, tlv)
       /\ nextTlv' = IF tlv.null THEN nextTlv ELSE nextTlv + 1
    /\ tlvop' = [op |-> "copy", t |-> attrs[i].t]
    /\ UNCHANGED <<uvars, poolvars, putvars, rdvars>>

\* the TLV at position i is resized in place
ResizeTlv(i, newlen, how) ==
    /\ i \in DOMAIN attrs
    /\ LET in == [null |-> FALSE, t |-> attrs[i].t, l |-> attrs[i].l,
                  v |-> attrs[i].v]
           res == resizetlv(in, newlen, how) IN
       attrs' = [attrs EXCEPT ![i] = [@ EXCEPT !.l = res.tlv.l, !.v = res.tlv.v]]
    /\ tlvop' = [op |-> "resize", t |-> attrs[i].t]
    /\ UNCHANGED nextTlv
    /\ UNCHANGED <<uvars, poolvars, putvars, rdvars>>

\* rmtlv(attrs, t)
RmTlv(t) ==
    /\ attrs' = rmtlv(attrs, t)
    /\ tlvop' = [op |-> "rm", t |-> t]
    /\ UNCHANGED nextTlv
    /\ UNCHANGED <<uvars, poolvars, putvars, rdvars>>

\* ------------------------------------------------------- specification
Init ==
    /\ clock = 0
    /\ clients = [p \in Confs |-> <<>>]
    /\ plock = [p \in Confs |-> None]
    /\ nextCl = 1
    /\ rq = [r \in 1..(MaxRq + 1) |-> NoRq]
    /\ nextRq = 1
    /\ replyq = <<>>
    /\ sockq = [s \in Socks |-> <<>>]
    /\ pc = [s \in Socks |-> "newrq"]
    /\ cur = [s \in Socks |-> None]
    /\ conf = [s \in Socks |-> NoConf]
    /\ frm = [s \in Socks |-> NoAddr]
    /\ len = [s \in Socks |-> 0]
    /\ cl = [s \in Socks |-> None]
    /\ ev = [s \in Socks |-> None]
    /\ now = [s \in Socks |-> 0]
    /\ wpc = "lock"
    /\ wreply = None
    /\ wto = NoAddr
    /\ sent = {}
    /\ out = [s \in Socks |-> "none"]
    /\ pool = <<>>
    /\ srv = [x \in Servers |-> [sock |-> NoSock, cands |-> <<>>,
                                 fam |-> "unspec", done |-> FALSE]]
    /\ nextFd = 3
    /\ exited = FALSE
    /\ rpc = "call"
    /\ rbuf = "uninit"
    /\ rin = "none"
    /\ rfreed = "nothing"
    /\ rsockq = <<>>
    /\ rret = [server |-> NoConf, len |-> 0]
    /\ attrs = <<>>
    /\ nextTlv = 1
    /\ tlvop = [op |-> "none", t |-> 0]
    /\ put = [called |-> FALSE, server |-> 0, sock |-> NoSock, radlen |-> 0,
              ok |-> FALSE, ret |-> 0, sends |-> <<>>]

Listener(s) ==
    \/ NewRequest(s)
    \/ RadudpgetRecv(s)
    \/ RadudpgetWalk(s)
    \/ RadudpgetScrub(s)
    \/ RadudpgetRemove(s)

Writer == WriterWait \/ WriterShift \/ WriterSend

Next ==
    \/ \E s \in Socks, d \in PlainDatagrams : Arrive(s, d)
    \/ \E dt \in Deltas : Tick(dt)
    \/ \E s \in Socks : Listener(s)
    \/ \E r \in 1..MaxRq : Enqueue(r)
    \/ Writer

Spec == Init /\ [][Next]_vars

\* one listener alone, with every kind of datagram on the wire
NextRecv ==
    \/ \E d \in WireDatagrams : Arrive(1, d)
    \/ \E dt \in Deltas : Tick(dt)
    \/ Listener(1)

SpecRecv == Init /\ [][NextRecv]_vars

\* one listener alone, with datagrams queueing up on its socket
NextOrder ==
    \/ \E d \in OrderDatagrams : Arrive(1, d)
    \/ \E d \in OrderDatagrams : ArriveBehind(1, d)
    \/ \E dt \in Deltas : Tick(dt)
    \/ Listener(1)

SpecOrder == Init /\ [][NextOrder]_vars

\* the client table alone: passes of the client section and the clock
NextTable ==
    \/ \E s \in Socks, a \in TableAddrs : TablePass(s, a)
    \/ \E dt \in Deltas : Tick(dt)

SpecTable == Init /\ [][NextTable]_vars

\* the upstream reader alone, with every kind of datagram on the wire
NextReader ==
    \/ \E d \in WireDatagrams : ReaderArrive(d)
    \/ ReaderCall
    \/ ReaderTop
    \/ ReaderRecv
    \/ ReaderReply

SpecReader == Init /\ [][NextReader]_vars

\* the configuration phase: addserverextraudp for one server after another
NextPool ==
    \E x \in Servers, cands \in CandLists, fam \in Families, bound \in BOOLEAN :
       AddServerExtraUdp(x, cands, fam, bound)

SpecPool == Init /\ [][NextPool]_vars

\* servers are set up, each with one inet source, and requests are sent
NextPut ==
    \/ \E x \in Servers, c \in {BindA, BindB}, bound \in BOOLEAN :
          AddServerExtraUdp(x, <<c>>, "inet", bound)
    \/ \E x \in Servers, radlen \in RadLens, ok \in BOOLEAN :
          ClientRadPutUdp(x, radlen, ok)

SpecPut == Init /\ [][NextPut]_vars

\* TLVs are made, copied, resized and removed by type on one list
NextTlv ==
    \/ \E t \in TlvTypes, l \in TlvLens, v \in SrcBufs,
          mem \in {"ok", "notlv", "nov"} : MakeTlv(t, l, v, mem)
    \/ \E i \in 1..MaxTlvs, mem \in {"ok", "notlv", "nov"} : CopyTlv(i, mem)
    \/ \E i \in 1..MaxTlvs, newlen \in TlvLens, how \in {"ok", "null"} :
          ResizeTlv(i, newlen, how)
    \/ \E t \in TlvTypes : RmTlv(t)

SpecTlv == Init /\ [][NextTlv]_vars

TypeOK ==
    /\ clock \in 0..MaxTime
    /\ nextCl \in 1..(MaxTableClients + 1)
    /\ nextRq \in 1..(MaxRq + 1)
    /\ \A s \in Socks : pc[s] \in {"newrq", "recv", "lockp", "scrub", "remove"}
    /\ wpc \in {"lock", "waiting", "send"}

\* the scheduler lets the writer thread run
FairSpec == Spec /\ WF_vars(Writer)

\* ---------------------------------------------------------------- claims
\* the Requests 1..MaxRq that are on the reply queue
Queued == {replyq[k] : k \in DOMAIN replyq}

\* the writer performs its sendto for the reply it holds
SendStep == wpc = "send" /\ wpc' = "lock" /\ rq[wreply].from # None

\* C1: whenever the writer performs a sendto for a reply, the reply's
\* originating client is still a member of its peer-config's client list, in
\* every interleaving with the listener's eviction, also when the client is
\* removed after the writer shifted the reply and released the queue mutex.
C1_NeverSendsToEvictedClient ==
    [][SendStep => Live(rq[wreply].from)]_vars

\* C2: when the listener that evicts client C releases the peer-config lock,
\* no Request on the reply queue has from = C.
C2_NoQueuedReplyForEvictedAtUnlock ==
    [][\A s \in Socks :
         (pc[s] = "remove" /\ pc'[s] # "remove")
            => \A r \in Queued : rq'[r].from # ev[s]]_vars

\* a reply that was on the queue when its client's eviction scrubbed it
Scrubbed(r) == rq[r].state = "queued" /\ rq[r].from = None

\* the Request was released once and never sent
ReleasedUnsent(r) ==
    /\ rq[r].state = "freed"
    /\ rq[r].nfree = 1
    /\ rq[r].from = None
    /\ \A m \in sent : m.rq # r

WalkStep(s) == pc[s] = "lockp" /\ pc'[s] # "lockp"

\* radudpget returns to udpserverrd in this step, which hands the Request on
ReturnStep(s) ==
    /\ pc[s] \in {"lockp", "remove"}
    /\ rq'[cur[s]].state = "radsrv"

\* position i of list L holds the client the datagram from a on s matches:
\* the first client of that socket with that address
FirstMatch(L, i, s, a) ==
    /\ L[i].sock = s
    /\ L[i].addr = a
    /\ \A j \in 1..(i - 1) : ~(L[j].sock = s /\ L[j].addr = a)

\* position i holds a client of s whose expiry has passed and that the
\* datagram does not match
Stale(L, i, s, a, t) ==
    /\ L[i].sock = s
    /\ L[i].expiry < t
    /\ ~FirstMatch(L, i, s, a)

C5_PublishedClientIsFreshMember ==
    /\ [][\A s \in Socks : ReturnStep(s) =>
            LET t == IF pc[s] = "remove" /\ cl[s] # None THEN now[s] ELSE clock
                L == clients'[conf[s]]
            IN /\ rq'[cur[s]].udpsock = s
               /\ \E k \in DOMAIN L :
                     L[k] = [id |-> rq'[cur[s]].from, sock |-> s,
                             addr |-> frm[s], expiry |-> t + ExpirySecs]]_vars
    /\ [](\A s \in Socks :
            pc[s] \in {"scrub", "remove"} => (ev[s] # None /\ ev[s] # cl[s]))

\* a matched client whose expiry had passed was published, and a new one
C5_Witness ==
    /\ \E s \in Socks : out[s] = "revived" /\ pc[s] = "newrq"
                        /\ Live(rq[cur[s]].from)
    /\ \E r \in 1..MaxRq : rq[r].state # "free" /\ rq[r].from # None

\* ----- the framing, seen from outside
\* the listener of s, waiting in recvfrom with a datagram on its socket,
\* takes a step
RecvStep(s) ==
    /\ pc[s] = "recv"
    /\ sockq[s] # <<>>
    /\ sockq'[s] # sockq[s] \/ out'[s] # out[s] \/ pc'[s] # pc[s]

\* the step reads the datagram off the socket and changes nothing else of
\* the program: no buffer, no client made, refreshed or removed, no lock
\* taken, no Request handed on, and the listener is back in recvfrom
DiscardStep(s) ==
    /\ sockq' = [sockq EXCEPT ![s] = Tail(sockq[s])]
    /\ UNCHANGED <<clock, clients, plock, nextCl, rq, nextRq, replyq>>
    /\ UNCHANGED <<pc, cur, conf, frm, len, cl, ev, now>>
    /\ UNCHANGED <<wpc, wreply, wto, sent>>

\* the datagram comes from a configured peer and has a whole header
Framed(d) == find_clconf(d.from) # NoConf /\ d.size >= PeekLen

\* C6: every length radudpget returns is in 20..4096, and a datagram of a
\* configured peer whose declared length is not (get_checked_rad_length gives
\* <= 0, or more than 4096) is read off the socket with no buffer, no client
\* and no Request handed on, and the loop takes the next datagram.
C6_LengthInRangeOrDiscarded ==
    /\ [](\A r \in 1..MaxRq :
            rq[r].state \notin {"free", "new"} =>
               (rq[r].buflen >= 20 /\ rq[r].buflen <= 4096))
    /\ [](\A s \in Socks :
            pc[s] \in {"lockp", "scrub", "remove"} =>
               (len[s] >= 20 /\ len[s] <= 4096))
    /\ [][\A s \in Socks :
            LET d == Head(sockq[s])
                l == get_checked_rad_length(d.hdr)
            IN (RecvStep(s) /\ Framed(d) /\ (l <= 0 \/ l > 4096)) =>
                  (DiscardStep(s) /\ out'[s] = "badlen")]_vars

\* a datagram with a bad length was discarded after one of the longest
\* accepted length was returned
C6_Witness ==
    \E s \in Socks :
       /\ out[s] = "badlen"
       /\ pc[s] = "recv"
       /\ sockq[s] = <<>>
       /\ \E r \in 1..MaxRq : rq[r].state = "radsrv" /\ rq[r].buflen = RadMaxLen

\* C7: for a datagram of a configured peer whose declared length len is
\* valid: when fewer than len bytes arrived it is discarded, with no buffer
\* returned and no client made or refreshed; when len or more arrived (and
\* the buffer could be allocated) radudpget goes on with exactly len and a
\* buffer holding the first len bytes, also when more than len arrived, and
\* that is what it returns.
C7_ShortDiscardedLongCut ==
    /\ [][\A s \in Socks :
            LET d == Head(sockq[s])
                l == d.hdr
            IN (RecvStep(s) /\ Framed(d) /\ l >= RadHeaderLen /\ l <= RadMaxLen) =>
                  IF d.size < l
                  THEN DiscardStep(s) /\ out'[s] \in {"short", "nomem"}
                  ELSE \/ DiscardStep(s) /\ out'[s] = "nomem"
                       \/ /\ sockq'[s] = Tail(sockq[s])
                          /\ pc'[s] = "lockp"
                          /\ len'[s] = l
                          /\ rq'[cur[s]].bufn = l
                          /\ frm'[s] = d.from
                          /\ out'[s] = IF d.size > l THEN "padded" ELSE "ok"
                          /\ UNCHANGED <<clients, nextCl, plock>>]_vars
    /\ [][\A s \in Socks : ReturnStep(s) =>
            /\ rq'[cur[s]].buflen = len[s]
            /\ rq'[cur[s]].bufn = len[s]
            /\ rq[cur[s]].bufn = len[s]]_vars

\* a padded datagram was received and cut to its declared length
C7_Witness ==
    \E s \in Socks :
       /\ out[s] = "padded"
       /\ pc[s] = "lockp"
       /\ rq[cur[s]].bufn = len[s]
       /\ sockq[s] = <<>>

\* C8: a datagram whose source address matches no peer configuration is
\* read off the socket and nothing else changes: no buffer, no client made,
\* refreshed or removed, no lock taken, no Request handed on; the loop takes
\* the next datagram.
C8_UnknownPeerDrained ==
    [][\A s \in Socks :
         (RecvStep(s) /\ find_clconf(Head(sockq[s]).from) = NoConf) =>
            (DiscardStep(s) /\ out'[s] = "nopeer")]_vars

\* a datagram of an unknown peer was drained while a client was on the list
C8_Witness ==
    \E s \in Socks :
       /\ out[s] = "nopeer"
       /\ pc[s] = "recv"
       /\ sockq[s] = <<>>
       /\ clients[find_clconf(AddrA)] # <<>>

\* ----- the socket pool, seen from outside
\* server x was set up and the process is running
Configured(x) == srv[x].done /\ ~exited

\* the source bind address server x resolved to: the first candidate, in
\* candidate order, whose family is acceptable
HasSource(x) ==
    \E i \in DOMAIN srv[x].cands :
       srv[x].cands[i].fam \in {"unspec", srv[x].fam}
SourceOf(x) ==
    LET ok == {i \in DOMAIN srv[x].cands :
                  srv[x].cands[i].fam \in {"unspec", srv[x].fam}}
    IN srv[x].cands[CHOOSE i \in ok : \A j \in ok : i <= j]

\* pool q begins with pool p
Extends(p, q) ==
    /\ Len(p) <= Len(q)
    /\ \A k \in DOMAIN p : q[k] = p[k]

\* C9: the pool holds at most one entry per source bind address and only
\* grows; two servers that resolved to the same source bind address have the
\* same sock, and two that resolved to different ones have different socks.
C9_PoolDeduplicates ==
    [][/\ Extends(pool, pool')
       /\ \A k, m \in DOMAIN pool' :
             pool'[k].source = pool'[m].source => k = m
       /\ \A x, y \in Servers :
             (Configured(x)' /\ Configured(y)') =>
                ((SourceOf(x)' = SourceOf(y)') <=> (srv'[x].sock = srv'[y].sock))]_vars

\* C10: a set-up server's sock is the socket of the first candidate, in
\* candidate order, whose family is acceptable; no later candidate changes it.
C10_FirstAssignmentWins ==
    \A x \in Servers :
       Configured(x) =>
          /\ HasSource(x)
          /\ \E k \in DOMAIN pool :
                /\ pool[k].source = SourceOf(x)
                /\ pool[k].socket = srv[x].sock

\* ----- the mutexes, seen from outside
\* the step changes what the reply-queue mutex protects: the entries of the
\* queue, or the from of a queued Request
QueueTouched ==
    \/ replyq' # replyq
    \/ \E r \in Queued : rq'[r].from # rq[r].from

WriterDoneStep == wpc = "send" /\ wpc' = "lock"

\* C12: the reply queue changes only by an entry added at its end or by the
\* writer taking its first entry, so replies leave in the order they were
\* queued; the writer's turn with a reply makes at most one sendto, for that
\* reply, and releases it, once, whether it was sent or skipped; no other step
\* sends or releases, and no Request is sent or released twice.
C12_FifoOneSendOneRelease ==
    /\ [][/\ replyq' # replyq =>
               \/ /\ replyq # <<>>
                  /\ replyq' = Tail(replyq)
                  /\ wreply' = Head(replyq)
                  /\ wpc = "lock" /\ wpc' = "send"
               \/ \E r \in 1..MaxRq : replyq' = Append(replyq, r)
          /\ WriterDoneStep =>
               /\ rq'[wreply].state = "freed"
               /\ rq'[wreply].nfree = rq[wreply].nfree + 1
               /\ sent' \subseteq sent \cup {[rq |-> wreply, to |-> wto,
                                             sock |-> rq[wreply].udpsock]}
               /\ \A r \in 1..MaxRq : r # wreply => rq'[r] = rq[r]
          /\ ~WriterDoneStep =>
               /\ sent' = sent
               /\ \A r \in 1..MaxRq : rq'[r].nfree = rq[r].nfree]_vars
    /\ [](\A r \in 1..MaxRq :
            /\ rq[r].nfree <= 1
            /\ Cardinality({m \in sent : m.rq = r}) <= 1
            /\ (rq[r].state = "freed") <=> (rq[r].nfree = 1)
            /\ (rq[r].state = "writer") <=> (wreply = r))

\* two replies went through the writer, one sent and one skipped
C12_Witness ==
    \E r1, r2 \in 1..MaxRq :
       /\ rq[r1].state = "freed" /\ rq[r2].state = "freed"
       /\ \E m \in sent : m.rq = r1
       /\ rq[r2].from = None /\ \A m \in sent : m.rq # r2

\* C19: the writer waits on the condition only with the reply queue empty,
\* and, the writer thread being scheduled, every Request put on the queue is
\* in the end taken off it and released by the writer, once, whether or not
\* an eviction cleared its from in between.
C19_EveryQueuedReplyReleased ==
    /\ [](wpc = "waiting" => replyq = <<>>)
    /\ \A r \in 1..MaxRq :
          (rq[r].state = "queued") ~> (rq[r].state = "freed" /\ rq[r].nfree = 1)

\* the writer is back waiting after it released every Request of the run,
\* one of them sent
C19_Witness ==
    /\ wpc = "waiting"
    /\ \A r \in 1..MaxRq : rq[r].state = "freed"
    /\ sent # {}

\* ----- the order of the datagrams, seen from outside
\* C13: a socket's waiting datagrams change only by a new one added behind
\* them or by the listener, in recvfrom, taking the first; every pass of the
\* receive loop takes exactly one, and a pass that goes on to the client
\* section carries the source and the length of the datagram it took; the
\* listener makes its next Request only after it handed the one before to
\* radsrv, and a Request handed to radsrv has from set to a client on the
\* list with the datagram's source, buflen the returned length and udpsock
\* the listener's socket.
C13_DatagramsInArrivalOrder ==
    [][\A s \in Socks :
         /\ sockq'[s] # sockq[s] =>
               \/ /\ pc[s] = "recv"
                  /\ sockq[s] # <<>>
                  /\ sockq'[s] = Tail(sockq[s])
                  /\ \/ /\ pc'[s] = "lockp"
                        /\ frm'[s] = Head(sockq[s]).from
                        /\ len'[s] = Head(sockq[s]).hdr
                     \/ /\ pc'[s] = "recv"
                        /\ out'[s] \in {"nopeer", "badlen", "nomem", "short"}
                        /\ rq' = rq
               \/ /\ Len(sockq'[s]) = Len(sockq[s]) + 1
                  /\ SubSeq(sockq'[s], 1, Len(sockq[s])) = sockq[s]
         /\ (pc[s] = "recv" /\ pc'[s] # "recv") => sockq'[s] = Tail(sockq[s])
         /\ (cur'[s] # cur[s] /\ cur[s] # None) =>
               (cur'[s] > cur[s] /\ rq[cur[s]].state \notin {"free", "new"})
         /\ ReturnStep(s) =>
               /\ rq'[cur[s]].from # None
               /\ \E k \in DOMAIN clients'[conf[s]] :
                     /\ clients'[conf[s]][k].id = rq'[cur[s]].from
                     /\ clients'[conf[s]][k].addr = frm[s]
               /\ rq'[cur[s]].buflen = len[s]
               /\ rq'[cur[s]].udpsock = s]_vars

\* a Request was handed to radsrv, the listener is in the client section with
\* the next datagram, and a datagram from another source waits behind it
C13_Witness ==
    \E s \in Socks :
       /\ pc[s] = "lockp"
       /\ Len(sockq[s]) = 1
       /\ Head(sockq[s]).from # frm[s]
       /\ \E r \in 1..MaxRq : rq[r].state = "radsrv" /\ rq[r].udpsock = s

\* ----- the upstream sender, seen from outside
\* C14: clientradputudp returns 1 exactly when radlen > 0 and its sendto
\* succeeds, and 0 otherwise; with radlen <= 0 it makes no sendto, and it
\* never makes more than one: the one it makes is on the server's sock, of
\* radlen bytes, to the first of the server's host/ports.
C14_PutReturnsOneIffSent ==
    put.called =>
       /\ put.ret \in {0, 1}
       /\ (put.ret = 1) <=> (put.radlen > 0 /\ put.ok)
       /\ put.radlen <= 0 => put.sends = <<>>
       /\ Len(put.sends) <= 1
       /\ put.radlen > 0 =>
             put.sends = <<[sock |-> put.sock, len |-> put.radlen,
                            to |-> HostPorts(put.server)[1]]>>

\* a request went out on a set-up server's socket
C14_Witness ==
    /\ put.called
    /\ put.ret = 1
    /\ put.sends # <<>>
    /\ srv[put.server].done
    /\ srv[put.server].sock = put.sock

\* ----- the TLVs, seen from outside
\* the step is a call of rmtlv
RmStep == tlvop'.op = "rm" /\ <<attrs, tlvop>>' # <<attrs, tlvop>>

\* C15: after rmtlv(L, t) the list holds no TLV of type t and holds exactly
\* the TLVs of L whose type is not t, in the order they had in L.
C15_RmtlvRemovesExactlyType ==
    [][RmStep =>
         /\ \A i \in DOMAIN attrs' : attrs'[i].t # tlvop'.t
         /\ attrs' = SelectSeq(attrs, LAMBDA e : e.t # tlvop'.t)]_vars

\* rmtlv took two TLVs of one type from around a TLV of another type
C15_Witness ==
    /\ tlvop.op = "rm"
    /\ Len(attrs) = 1
    /\ attrs[1].id = 2
    /\ nextTlv = 4

\* the data-model invariant of one TLV
TlvWellFormed(e) ==
    /\ e.l = 0 => ~e.v.has
    /\ e.l > 0 => (e.v.has /\ Len(e.v.bytes) = e.l)

\* C16: every TLV that maketlv or copytlv produced or resizetlv changed has
\* no value when l = 0 and a value of exactly l bytes when l > 0.
C16_TlvWellFormed ==
    \A i \in DOMAIN attrs : TlvWellFormed(attrs[i])

\* ----- the client table, seen from outside
\* the listener of s has finished a pass of the client section
PassDone(s) == out[s] \in {"matched", "created", "failed"}

\* C17: when a pass for socket s has released the peer-config lock, no
\* client of that socket remains on the list whose expiry had passed at the
\* time of the pass and whose address is not the datagram's source.
C17_NoStaleClientAfterPass ==
    \A s \in Socks :
       PassDone(s) =>
          LET L == clients[find_clconf(frm[s])] IN
          \A k \in DOMAIN L :
             ~(L[k].sock = s /\ L[k].expiry < now[s] /\ ~addr_equal(frm[s], L[k].addr))

\* C18: a peer-config's client list never holds two records with the same
\* socket and the same peer address.
C18_NoDuplicateClient ==
    \A p \in Confs :
       \A k, m \in DOMAIN clients[p] :
          (clients[p][k].sock = clients[p][m].sock
             /\ addr_equal(clients[p][k].addr, clients[p][m].addr)) => k = m

\* ----- the receive buffer, seen from outside
\* C20: on every call of radudpget by the upstream reader, its first
\* included, the buffer pointer passed in is none or a buffer radudpget
\* allocated and nobody else has, and the free at the top of the receive loop
\* releases nothing else.  (The listener's calls pass the buf of a Request
\* newrequest just made.)
C20_BufferPassedInIsOwnOrNone ==
    /\ rin \in {"none", "own"}
    /\ rfreed \in {"nothing", "own"}

====
